---- MODULE Spec2Model ----
(***************************************************************************)
(* Model of the travel-search backend and UI glue:                         *)
(*   - the OAuth2 token cache (backend/utils.py and                         *)
(*     backend/routers/airports.py each hold a module-level copy),          *)
(*   - the airport lookup chain geocode -> token -> airport search, as the  *)
(*     HTTP route (routers/airports.py) and as the agent tool               *)
(*     (tools/airports.py),                                                 *)
(*   - the flight-search operations (tools/flights.py, utils.py,            *)
(*     routers/flights.py, frontend/components/ui_manager.py) and the       *)
(*     booking-option lookup,                                               *)
(*   - the UI callbacks that render the card slots and switch the views     *)
(*     (frontend/components/ui_manager.py).                                 *)
(* Coroutines run on one event loop: the code between two awaits is one     *)
(* atomic action; a vendor's answer is a message in flight.                 *)
(***************************************************************************)
EXTENDS Integers, Sequences, FiniteSets, TLC

(***************************************************************************)
(* Bounds of the model.                                                    *)
(***************************************************************************)
\* last instant of the clock (seconds)
MaxTime == 1
\* number of token-endpoint calls in one run
MaxPosts == 2

\* longest best_flights list, other_flights list, booking_options list
MaxBest == 11
MaxOther == 11
MaxOptions == 11

\* the concurrent requests
Procs == {"p1", "p2"}

(***************************************************************************)
(* Program constants.                                                      *)
(***************************************************************************)
\* utils.py:71, routers/airports.py:43: "- 10"
Margin == 10
\* the vendor's expires_in values: shorter and longer than the margin
ExpiresIn == {8, 11}
\* non-2xx statuses a vendor answers with
ErrStatus == {404, 503}
\* location strings, as character sequences: empty, whitespace-only, a place
Locations == {<< >>, <<" ">>, <<"P">>}

\* _access_token = None
None == 0

(***************************************************************************)
(* str.strip(): drop leading and trailing whitespace.                      *)
(***************************************************************************)
IsSpace(c) == c \in {" ", "\t", "\n"}

RECURSIVE LStrip(_)
LStrip(s) ==
    IF s = << >> THEN << >>
    ELSE IF IsSpace(Head(s)) THEN LStrip(Tail(s)) ELSE s

RECURSIVE RStrip(_)
RStrip(s) ==
    IF s = << >> THEN << >>
    ELSE IF IsSpace(s[Len(s)]) THEN RStrip(SubSeq(s, 1, Len(s) - 1)) ELSE s

Strip(s) == RStrip(LStrip(s))

\* Python truthiness of a str
Truthy(s) == Len(s) > 0

(***************************************************************************)
(* State.                                                                  *)
(***************************************************************************)
VARIABLES
    now,        \* time.time()
    cache,      \* module -> [token, expiry]: _access_token, _token_expiry
    posts,      \* history: number of calls made to the token endpoint
    minted,     \* history: the tokens the vendor has issued
    written,    \* history: module -> its latest completed exchange: the token, expires_in, the time
    geoKey,     \* os.getenv("GOOGLE_GEOLOCATION_API") is set
    creds,      \* AMADEUS_CLIENT_ID and AMADEUS_CLIENT_SECRET are set
    pc,         \* each request's position
    entry,      \* each request's entry point: "route" or "tool"
    loc,        \* each request's location argument
    calls,      \* each request's outbound calls, in order
    answers,    \* history: the answers the request has taken so far, in order
    tok,        \* the token get_access_token returned to the request
    tcall,      \* how the request's get_access_token call went
    last,       \* the request that has just ended, with what its caller is handed
    serpKey,    \* os.getenv("SERPAPI_API_KEY") is set
    fpc,        \* the flight-search operation's position
    fop,        \* which flight-search operation runs
    fparams,    \* its request
    fquery,     \* the query sent to the flight-search provider
    fanswer,    \* the provider's answer
    fresult,    \* what the operation's caller gets
    panels,     \* the panels' visibility, as the latest update_view call left it
    render      \* the latest rendering call: its arguments and what it returned

avars == <<now, cache, posts, minted, written, geoKey, creds, pc, entry, loc, calls,
           answers, tok, tcall, last>>
fvars == <<serpKey, fpc, fop, fparams, fquery, fanswer, fresult>>
uvars == <<panels, render>>
vars == <<avars, fvars, uvars>>

Modules == {"routers", "utils"}

\* routers/airports.py calls its own get_access_token (line 73);
\* tools/airports.py imports backend.utils.get_access_token (line 4)
ModuleOf(e) == IF e = "route" THEN "routers" ELSE "utils"

NoResp == [kind |-> "none", status |-> 0, json |-> FALSE, token |-> None, expires_in |-> 0]
NoOutcome == [raised |-> FALSE, type |-> "", status |-> 0, msg |-> "", cause |-> ""]
\* a get_access_token call not made yet: whether it found the cache valid (hit)
\* or not (miss), and the calls it made to the token endpoint
NoCall == [miss |-> FALSE, hit |-> FALSE, posts |-> 0]

(***************************************************************************)
(* Values a function hands to its caller: a returned value or a raised     *)
(* exception.  type is the Python type, status the status code the value   *)
(* carries (HTTPException.status_code, response.status_code of an          *)
(* HTTPStatusError, the "status" entry of a returned dict), msg the        *)
(* message (detail / title, without the interpolated part), cause the      *)
(* str(e) interpolated into it.                                            *)
(***************************************************************************)
Raise(t, s, m) == [raised |-> TRUE, type |-> t, status |-> s, msg |-> m, cause |-> ""]
Return(t, s, m) == [raised |-> FALSE, type |-> t, status |-> s, msg |-> m, cause |-> ""]

\* str(e): starlette's HTTPException prints "<status_code>: <detail>"
StrOf(e) ==
    IF e.type = "HTTPException"
    THEN (IF e.status = 404 THEN "404: " ELSE "500: ") \o e.msg
    ELSE e.msg

HTTPException(s, detail, e) ==
    [raised |-> TRUE, type |-> "HTTPException", status |-> s, msg |-> detail,
     cause |-> IF e = NoOutcome THEN "" ELSE StrOf(e)]

(***************************************************************************)
(* Vendor answers.                                                         *)
(***************************************************************************)
Resp(k, s, j) == [kind |-> k, status |-> s, json |-> j, token |-> None, expires_in |-> 0]

\* Google Geocoding: 200 with results, 200 with no results, a non-2xx status,
\* no answer (network error / timeout), 200 with a body that is not JSON
GeoResponses ==
    {Resp("results", 200, TRUE), Resp("empty", 200, TRUE), Resp("neterr", 0, FALSE),
     Resp("badjson", 200, FALSE)}
    \cup {Resp("http", s, TRUE) : s \in ErrStatus}

\* the token endpoint; n is the token the vendor issues, a new one each time
TokenResponses(n) ==
    {[kind |-> "ok", status |-> 200, json |-> TRUE, token |-> n, expires_in |-> e] :
        e \in ExpiresIn}
    \cup {Resp("neterr", 0, FALSE), Resp("badjson", 200, FALSE)}
    \cup {Resp("http", s, TRUE) : s \in ErrStatus}

\* the airport search: 200 with airports, 200 with an empty list, a non-2xx
\* status with a JSON or a non-JSON body, no answer, 200 with a non-JSON body
AirportResponses ==
    {Resp("data", 200, TRUE), Resp("empty", 200, TRUE), Resp("neterr", 0, FALSE),
     Resp("badjson", 200, FALSE)}
    \cup {Resp("http", s, j) : s \in ErrStatus, j \in BOOLEAN}

(***************************************************************************)
(* fetch_geolocation (utils.py).                                           *)
(***************************************************************************)
\* lines 19-21: the API key is read and checked before anything is sent
FetchGeolocationEarly ==
    IF ~geoKey THEN Raise("ValueError", 0, "Google Developer API not found")
    ELSE NoOutcome

\* the check of lines 32-33 left out: an answer with no results counts as found
FetchGeolocationResultKeepsGoing(r) ==
    CASE r.kind = "neterr" -> Raise("RequestError", 0, "geocode request failed")
      [] r.kind = "http" -> Raise("HTTPStatusError", r.status, "geocode status error")
      [] r.kind = "badjson" -> Raise("JSONDecodeError", 0, "geocode body is not JSON")
      [] OTHER -> Return("coords", 0, "")

\* lines 27-42: what the call gives for the provider's answer r
FetchGeolocationResult(r) ==
    CASE r.kind = "neterr" -> Raise("RequestError", 0, "geocode request failed")
      [] r.kind = "http" -> Raise("HTTPStatusError", r.status, "geocode status error")
      [] r.kind = "badjson" -> Raise("JSONDecodeError", 0, "geocode body is not JSON")
      [] r.kind = "empty" -> Return("None", 0, "")
      [] OTHER -> Return("coords", 0, "")

\* routers/airports.py line 6 imports fetch_geolocation from routers/geolocation.py,
\* a file outside src/: taken to behave as section 4.1 of the specification
\* describes, which is what utils.fetch_geolocation does
RouterFetchGeolocationEarly == FetchGeolocationEarly
RouterFetchGeolocationResult(r) == FetchGeolocationResult(r)

(***************************************************************************)
(* get_access_token (utils.py 44-72, routers/airports.py 16-44).           *)
(***************************************************************************)
\* the comparison turned round: a cached token is used only once it has expired
TokenValidFlipped(m) == cache[m].token # None /\ now > cache[m].expiry

\* line 49 / 21: _access_token and time.time() < _token_expiry
TokenValid(m) == cache[m].token # None /\ now < cache[m].expiry

\* the safety margin left out
NewExpiryNoMargin(t, e) == t + e

\* line 71 / 43: time.time() + token_data["expires_in"] - 10
NewExpiry(t, e) == t + e - Margin

\* only the token is assigned: the expiry of the previous token stays
StoreTokenOnly(c, t, e) == [c EXCEPT !.token = t]

\* lines 70-71 / 42-43: both globals are assigned with no await in between
StoreToken(c, t, e) == [token |-> t, expiry |-> e]

\* raise_for_status left out: a non-2xx answer is read like a token
TokenExchangeResultUnchecked(r) ==
    CASE r.kind = "neterr" -> Raise("RequestError", 0, "token request failed")
      [] r.kind = "badjson" -> Raise("JSONDecodeError", 0, "token body is not JSON")
      [] OTHER -> Return("str", 0, "")

\* lines 66-68 / 38-40: what the exchange gives for the vendor's answer r
TokenExchangeResult(r) ==
    CASE r.kind = "neterr" -> Raise("RequestError", 0, "token request failed")
      [] r.kind = "http" -> Raise("HTTPStatusError", r.status, "token status error")
      [] r.kind = "badjson" -> Raise("JSONDecodeError", 0, "token body is not JSON")
      [] OTHER -> Return("str", 0, "")

(***************************************************************************)
(* get_airport and get_nearest_airports (routers/airports.py).             *)
(***************************************************************************)
\* lines 96-101: the except clauses of get_airport's try
RouterGetAirportExcept(e) ==
    IF e.type = "HTTPStatusError"
    THEN HTTPException(e.status, "Failed to fetch airports", e)
    ELSE HTTPException(500, "Error processing request", e)

\* the "except HTTPException: raise e" clause left out: every exception becomes
\* the generic 500
GetNearestAirportsWrapAll(v) ==
    IF v.raised THEN HTTPException(500, "Internal server error", NoOutcome)
    ELSE IF v.type = "None"
         THEN HTTPException(500, "Internal server error", NoOutcome)
         ELSE v

\* lines 117-126: get_nearest_airports around get_airport's result v
GetNearestAirports(v) ==
    IF v.raised
    THEN IF v.type = "HTTPException" THEN v
         ELSE HTTPException(500, "Internal server error", NoOutcome)
    ELSE IF v.type = "None"
         THEN HTTPException(404, "No airports found near", NoOutcome)
         ELSE v

\* lines 61-62: the location check, outside the try
RouterLocationCheck(l) ==
    IF ~Truthy(l) \/ ~Truthy(Strip(l))
    THEN Raise("ValueError", 0, "Location cannot be empty")
    ELSE NoOutcome

\* lines 66-67: no coordinates
RouterNoCoords == Return("dict", 404, "NO GEOLOCATION DATA FOUND FOR")

\* lines 85-94: the airport search's answer r, inside the try
RouterAirportResult(r) ==
    CASE r.kind = "neterr" ->
            RouterGetAirportExcept(Raise("RequestError", 0, "airport request failed"))
      [] r.kind = "http" ->
            RouterGetAirportExcept(Raise("HTTPStatusError", r.status, "airport status error"))
      [] r.kind = "badjson" ->
            RouterGetAirportExcept(Raise("JSONDecodeError", 0, "airport body is not JSON"))
      [] r.kind = "empty" ->
            RouterGetAirportExcept(HTTPException(404, "No airports found near", NoOutcome))
      [] OTHER -> Return("list", 200, "airports")

(***************************************************************************)
(* get_airport (tools/airports.py).                                        *)
(***************************************************************************)
\* lines 63-72: the except clauses
ToolGetAirportExcept(e) ==
    IF e.type = "HTTPStatusError"
    THEN [Return("dict", e.status, "FAILED TO FETCH AIRPORT") EXCEPT !.cause = StrOf(e)]
    ELSE [Return("dict", 500, "ERROR PROCESSING REQUEST") EXCEPT !.cause = StrOf(e)]

\* the "if not coords" check left out: coords["latitude"] on None raises TypeError
ToolNoCoordsUnchecked ==
    ToolGetAirportExcept(Raise("TypeError", 0, "'NoneType' object is not subscriptable"))

\* lines 29-30
ToolNoCoords == Return("dict", 404, "NO GEOLOCATION DATA FOUND FOR")

\* lines 43-62: line 45 parses the body before the status is looked at
ToolAirportResult(r) ==
    CASE r.kind = "neterr" ->
            ToolGetAirportExcept(Raise("RequestError", 0, "airport request failed"))
      [] ~r.json ->
            ToolGetAirportExcept(Raise("JSONDecodeError", 0, "airport body is not JSON"))
      [] r.status = 200 /\ r.kind = "empty" -> Return("dict", 404, "NO AIRPORT FOUND NEAR")
      [] r.status = 200 -> Return("list", 200, "airports")
      [] r.status \in {400, 404} -> Return("dict", r.status, "NO AIRPORT FOUND FOR")
      [] OTHER ->
            ToolGetAirportExcept(Raise("HTTPStatusError", r.status, "airport status error"))

(***************************************************************************)
(* What a request's caller gets, by entry point.                           *)
(***************************************************************************)
\* an exception e raised inside the try of get_airport
Caught(e, v) ==
    IF e = "route" THEN GetNearestAirports(RouterGetAirportExcept(v))
    ELSE ToolGetAirportExcept(v)

NoCoords(e) == IF e = "route" THEN GetNearestAirports(RouterNoCoords) ELSE ToolNoCoords

AirportResult(e, r) ==
    IF e = "route" THEN GetNearestAirports(RouterAirportResult(r)) ELSE ToolAirportResult(r)

GeoEarly(e) == IF e = "route" THEN RouterFetchGeolocationEarly ELSE FetchGeolocationEarly
GeoResult(e, r) ==
    IF e = "route" THEN RouterFetchGeolocationResult(r) ELSE FetchGeolocationResult(r)

(***************************************************************************)
(* Flight search: get_flights (tools/flights.py, utils.py), fetch_flights  *)
(* (utils.py) and on_get_return_flights (ui_manager.py).                   *)
(***************************************************************************)
FlightOps == {"tools.get_flights", "utils.get_flights", "utils.fetch_flights",
              "on_get_return_flights", "routers.get_flights"}

\* return_date of a request: the key is absent (None), empty, or a date
ReturnDates == {"None", "", "2025-07-01"}
\* str.__bool__ / None.__bool__
DateGiven(d) == d \notin {"None", ""}

\* the selected flight's departure_token ("" when the flight has none)
DepartureTokens == {"", "tok"}

\* the selected flight's booking_token ("" when the flight has none)
BookingTokens == {"", "btok"}
\* what a params argument is: a plain dict, or a pydantic model object
ParamKinds == {"dict", "model"}

NoParams ==
    [kind |-> "dict", return_date |-> "None", departure_token |-> "", booking_token |-> ""]
NoQuery ==
    [type |-> 0, return_date |-> "None", departure_token |-> "", booking_token |-> "",
     sent |-> FALSE]
NoAnswer == [kind |-> "none", status |-> 0, best |-> FALSE, error |-> FALSE, other |-> FALSE]
NoResult ==
    [raised |-> FALSE, type |-> "", status |-> 0, msg |-> "", view |-> "",
     best |-> FALSE, error |-> FALSE, other |-> FALSE]

\* a parsed body: which of best_flights, error, other_flights it holds
Body(b, e, o) == [kind |-> "dict", status |-> 200, best |-> b, error |-> e, other |-> o]
Failure(k, s) == [kind |-> k, status |-> s, best |-> FALSE, error |-> FALSE, other |-> FALSE]

\* GoogleSearch(query).get_dict(): a dict, or an exception
SdkAnswers ==
    {Body(b, e, o) : b \in BOOLEAN, e \in BOOLEAN, o \in BOOLEAN} \cup {Failure("neterr", 0)}

\* client.get(url): a 2xx JSON body, a non-2xx status, no answer, a body that is not JSON
HttpAnswers ==
    {Body(b, e, o) : b \in BOOLEAN, e \in BOOLEAN, o \in BOOLEAN}
    \cup {Failure("neterr", 0), Failure("badjson", 200)}
    \cup {Failure("http", s) : s \in ErrStatus}

\* ui_manager.py lines 11-15
VIEW_OUTBOUND_CARDS == "outbound cards"
VIEW_RETURN_CARDS == "return cards"
VIEW_OUTBOUND_DETAILS == "outbound details"
VIEW_RETURN_DETAILS == "return details"
VIEW_BOOKING == "booking"

\* a dict {"status": s, "error": m}
ErrorDict(s, m) == [NoResult EXCEPT !.type = "dict", !.status = s, !.msg = m, !.error = TRUE]
\* the provider's body handed on as it is
PassThrough(a) ==
    [NoResult EXCEPT !.type = "dict", !.best = a.best, !.error = a.error, !.other = a.other]
FlightRaise(t, s) == [NoResult EXCEPT !.raised = TRUE, !.type = t, !.status = s]

\* tools/flights.py 61-67: hasattr on a dict is False, so the marker comes from
\* params.return_date; return_date goes in when truthy
ToolsFlightsQuery(q) ==
    [type |-> IF DateGiven(q.return_date) THEN 1 ELSE 2,
     return_date |-> IF DateGiven(q.return_date) THEN q.return_date ELSE "None",
     departure_token |-> "", booking_token |-> "", sent |-> TRUE]

\* utils.py 179-192
UtilsFlightsQuery(q) ==
    [type |-> IF DateGiven(q.return_date) THEN 1 ELSE 2,
     return_date |-> IF DateGiven(q.return_date) THEN q.return_date ELSE "None",
     departure_token |-> q.departure_token, booking_token |-> "", sent |-> TRUE]

\* utils.py 234-248: the params go out as they are; no type marker is derived
FetchFlightsQuery(q) ==
    [type |-> 0, return_date |-> q.return_date, departure_token |-> q.departure_token,
     booking_token |-> q.booking_token, sent |-> TRUE]

\* tools/flights.py 86-94, utils.py 211-221
GetFlightsResult(a) ==
    IF a.kind = "neterr" THEN ErrorDict(500, "Failed to fetch flights")
    ELSE IF ~a.best /\ ~a.error
         THEN ErrorDict(404, "No flights found for the given parameters")
         ELSE PassThrough(a)

\* utils.py 250-253
FetchFlightsResult(a) ==
    CASE a.kind = "neterr" -> FlightRaise("RequestError", 0)
      [] a.kind = "http" -> FlightRaise("HTTPStatusError", a.status)
      [] a.kind = "badjson" -> FlightRaise("JSONDecodeError", 0)
      [] OTHER -> PassThrough(a)

\* ui_manager.py 185-190: the view goes with the data; an exception goes through
ReturnFlightsResult(a) ==
    IF FetchFlightsResult(a).raised THEN FetchFlightsResult(a)
    ELSE [FetchFlightsResult(a) EXCEPT !.view = VIEW_RETURN_CARDS]

\* routers/flights.py line 7 imports format_params and merge_flights_fields
\* from backend.utils, which does not define them in src/: taken to do what
\* section 4.3 of the specification says.  format_params "normalizes
\* numeric-looking values": the dates and tokens of a request are not numbers
\* and come out as they went in, in a dict
format_params(q) == [q EXCEPT !.kind = "dict"]
\* merge_flights_fields "reshapes the raw response to merge/normalize field
\* names": the body keeps the lists and the error field it came with
merge_flights_fields(a) == PassThrough(a)

\* routers/flights.py 26-34: the marker is derived from clean_params
RouterFlightsQuery(q) ==
    [type |-> IF DateGiven(format_params(q).return_date) THEN 1 ELSE 2,
     return_date |-> format_params(q).return_date,
     departure_token |-> format_params(q).departure_token,
     booking_token |-> format_params(q).booking_token, sent |-> TRUE]

\* routers/flights.py 36-46: fetch_flights
RouterFetchFlightsResult(a) ==
    CASE a.kind = "neterr" -> FlightRaise("RequestError", 0)
      [] a.kind = "http" -> FlightRaise("HTTPStatusError", a.status)
      [] a.kind = "badjson" ->
            [FlightRaise("HTTPException", 500) EXCEPT
                !.msg = "Failed to parse API response as JSON"]
      [] OTHER -> merge_flights_fields(a)

\* routers/flights.py 78-87: get_flights.  An HTTPException is caught, and
\* line 82 reads e.response, which an HTTPException does not have: the handler
\* raises AttributeError; any other exception is not caught
RouterGetFlightsResult(a) ==
    IF RouterFetchFlightsResult(a).raised /\ RouterFetchFlightsResult(a).type = "HTTPException"
    THEN [FlightRaise("AttributeError", 0) EXCEPT
            !.msg = "'HTTPException' object has no attribute 'response'"]
    ELSE RouterFetchFlightsResult(a)

(***************************************************************************)
(* Booking options: get_booking_options (utils.py 97-147,                  *)
(* tools/flights.py 104-154) and on_booking_options (ui_manager.py         *)
(* 123-162).                                                               *)
(***************************************************************************)
BookingOps == {"utils.get_booking_options", "tools.get_booking_options", "on_booking_options"}

AttributeError(m) == [FlightRaise("AttributeError", 0) EXCEPT !.msg = m]

\* utils.py 108-127: the params are read with .get (lines 108-125), which a
\* model object does not have, and then with .return_date (line 127), which a
\* dict does not have; the search of lines 138-140 is never reached
UtilsGetBookingOptions(q) ==
    IF q.kind = "model"
    THEN AttributeError("'BookingInput' object has no attribute 'get'")
    ELSE IF ~serpKey
    THEN ErrorDict(500, "SERPAPI_API_KEY not found in environment variables")
    ELSE AttributeError("'dict' object has no attribute 'return_date'")

\* tools/flights.py 115-126: params.booking_token (line 115) is not there on a
\* dict, params.departure_id (line 126) is not a field of BookingInput; the
\* static data of lines 141-142 is never reached
ToolsGetBookingOptions(q) ==
    IF q.kind = "dict"
    THEN AttributeError("'dict' object has no attribute 'booking_token'")
    ELSE IF ~serpKey
    THEN ErrorDict(500, "SERPAPI_API_KEY not found in environment variables")
    ELSE AttributeError("'BookingInput' object has no attribute 'departure_id'")

\* ui_manager.py 128-162: the selected flight's booking_token joins the
\* initial payload in a dict
on_booking_options(q) ==
    IF q.booking_token = ""
    THEN [NoResult EXCEPT !.type = "dict", !.msg = "No booking token available",
                          !.error = TRUE, !.view = VIEW_BOOKING]
    ELSE IF UtilsGetBookingOptions([q EXCEPT !.kind = "dict"]).raised
    THEN UtilsGetBookingOptions([q EXCEPT !.kind = "dict"])
    ELSE [UtilsGetBookingOptions([q EXCEPT !.kind = "dict"]) EXCEPT !.view = VIEW_BOOKING]

\* ui_manager.py 176-178
NoDepartureToken ==
    [NoResult EXCEPT !.type = "dict", !.msg = "No departure token available",
                     !.error = TRUE, !.view = VIEW_RETURN_CARDS]

(***************************************************************************)
(* Rendering (ui_manager.py 43-107).  A result set is the dict the search  *)
(* returned, or None; its lists hold flights, told apart by the list and   *)
(* the place they come from.  A card is the HTML text get_card_html builds *)
(* (never empty) or the empty string.                                      *)
(***************************************************************************)
\* ui_manager.py lines 9-10
MAX_FLIGHTS == 20
MAX_BOOKING_OPTIONS == 10

\* a list of n entries of the provider's list l
ListOf(l, n) == [i \in 1..n |-> <<l, i>>]

\* flight_data / booking_data: None, or a dict; a key that is absent reads as []
NoData == [missing |-> TRUE, best |-> << >>, other |-> << >>, options |-> << >>]
Data(b, o, k) ==
    [missing |-> FALSE, best |-> ListOf("best_flights", b), other |-> ListOf("other_flights", o),
     options |-> ListOf("booking_options", k)]

\* the selection index: None (-1), or a card's index
Selections == {-1, 0, 4}

\* lines 20-41: the card of flight f at index idx
get_card_html(idx, f, selected) ==
    [text |-> "<div class=card>", idx |-> idx, flight |-> f, selected |-> selected]
\* the empty string of lines 59, 79
EmptyCard == [text |-> "", idx |-> -1, flight |-> << >>, selected |-> FALSE]
\* lines 99-101: the text of booking option o at index i
OptionInfo(i, o) == [text |-> "### Option", idx |-> i, flight |-> o, selected |-> FALSE]

\* only the best flights are rendered
FlightsBestOnly(d) == IF d.missing THEN << >> ELSE d.best

\* lines 50-52, 67-69: flights = best_flights + other_flights
Flights(d) == IF d.missing THEN << >> ELSE d.best \o d.other

NoRender ==
    [op |-> "", selected |-> -1, data |-> NoData, container |-> FALSE, html |-> << >>,
     visible |-> << >>, buttons |-> << >>]

\* lines 44-60
update_cards(selected, d) ==
    [NoRender EXCEPT
        !.op = "update_cards", !.selected = selected, !.data = d,
        !.html = [i \in 1..MAX_FLIGHTS |->
                    IF i - 1 < Len(Flights(d))
                    THEN get_card_html(i - 1, Flights(d)[i], i - 1 = selected)
                    ELSE EmptyCard]]

\* lines 63-81
update_flight_interface(d) ==
    [NoRender EXCEPT
        !.op = "update_flight_interface", !.data = d,
        !.container = (Len(Flights(d)) > 0),
        !.html = [i \in 1..MAX_FLIGHTS |->
                    IF i - 1 < Len(Flights(d))
                    THEN get_card_html(i - 1, Flights(d)[i], FALSE)
                    ELSE EmptyCard],
        !.visible = [i \in 1..MAX_FLIGHTS |-> i - 1 < Len(Flights(d))]]

\* lines 84-107: group_visibles, info_updates, button_values
update_booking_ui(d) ==
    LET options == IF d.missing THEN << >> ELSE d.options
    IN  [NoRender EXCEPT
            !.op = "update_booking_ui", !.data = d,
            !.visible = [i \in 1..MAX_BOOKING_OPTIONS |-> i - 1 < Len(options)],
            !.html = [i \in 1..MAX_BOOKING_OPTIONS |->
                        IF i - 1 < Len(options) THEN OptionInfo(i - 1, options[i])
                        ELSE EmptyCard],
            !.buttons = [i \in 1..MAX_BOOKING_OPTIONS |-> i - 1 < Len(options)]]

(***************************************************************************)
(* The views (ui_manager.py 109-120, 192-203).                             *)
(***************************************************************************)

\* update_view has not run yet
NoPanels == [view |-> "", returned |-> "", flags |-> << >>]
\* the five gr.update(visible=...) of one branch, in the order of the return
Visible(k) == [i \in 1..5 |-> i = k]

\* every branch shows the booking panel as well
UpdateViewKeepsBooking(view) ==
    CASE view = VIEW_OUTBOUND_CARDS -> [view |-> view, returned |-> "tuple", flags |-> [Visible(1) EXCEPT ![5] = TRUE]]
      [] view = VIEW_RETURN_CARDS -> [view |-> view, returned |-> "tuple", flags |-> [Visible(2) EXCEPT ![5] = TRUE]]
      [] view = VIEW_OUTBOUND_DETAILS -> [view |-> view, returned |-> "tuple", flags |-> [Visible(3) EXCEPT ![5] = TRUE]]
      [] view = VIEW_RETURN_DETAILS -> [view |-> view, returned |-> "tuple", flags |-> [Visible(4) EXCEPT ![5] = TRUE]]
      [] view = VIEW_BOOKING -> [view |-> view, returned |-> "tuple", flags |-> Visible(5)]
      [] OTHER -> [view |-> view, returned |-> "None", flags |-> << >>]

\* lines 193-203; a view that is none of the five falls off the end: None
update_view(view) ==
    CASE view = VIEW_OUTBOUND_CARDS -> [view |-> view, returned |-> "tuple", flags |-> Visible(1)]
      [] view = VIEW_RETURN_CARDS -> [view |-> view, returned |-> "tuple", flags |-> Visible(2)]
      [] view = VIEW_OUTBOUND_DETAILS -> [view |-> view, returned |-> "tuple", flags |-> Visible(3)]
      [] view = VIEW_RETURN_DETAILS -> [view |-> view, returned |-> "tuple", flags |-> Visible(4)]
      [] view = VIEW_BOOKING -> [view |-> view, returned |-> "tuple", flags |-> Visible(5)]
      [] OTHER -> [view |-> view, returned |-> "None", flags |-> << >>]

\* lines 110-120: (view, details), or None when no branch returns
get_flight_details(q) ==
    IF DateGiven(q.return_date)
    THEN [NoResult EXCEPT !.type = "tuple", !.view = VIEW_OUTBOUND_DETAILS]
    ELSE IF q.departure_token # ""
    THEN [NoResult EXCEPT !.type = "tuple", !.view = VIEW_RETURN_DETAILS]
    ELSE IF q.booking_token # ""
    THEN [NoResult EXCEPT !.type = "tuple", !.view = VIEW_BOOKING]
    ELSE [NoResult EXCEPT !.type = "None"]

\* nothing rendered, no view shown yet
UiIdle ==
    /\ panels = NoPanels
    /\ render = NoRender

(***************************************************************************)
(* Initial state: module import (utils.py 12-13, routers/airports.py       *)
(* 13-14), the environment as the process finds it, no request running.    *)
(***************************************************************************)
\* no exchange completed yet
NoExchange == [token |-> None, expires_in |-> 0, at |-> 0]

NoLast ==
    [entry |-> "", loc |-> << >>, calls |-> << >>, path |-> "", resp |-> NoResp,
     outcome |-> NoOutcome]

\* no flight search running
FlightsIdle ==
    /\ fpc = "idle"
    /\ fop = ""
    /\ fparams = NoParams
    /\ fquery = NoQuery
    /\ fanswer = NoAnswer
    /\ fresult = NoResult

Init ==
    /\ serpKey = TRUE
    /\ FlightsIdle
    /\ UiIdle
    /\ now = 0
    /\ cache = [m \in Modules |-> [token |-> None, expiry |-> 0]]
    /\ posts = 0
    /\ minted = {}
    /\ written = [m \in Modules |-> NoExchange]
    /\ geoKey \in BOOLEAN
    /\ creds \in BOOLEAN
    /\ pc = [p \in Procs |-> "idle"]
    /\ entry = [p \in Procs |-> "route"]
    /\ loc = [p \in Procs |-> << >>]
    /\ calls = [p \in Procs |-> << >>]
    /\ answers = [p \in Procs |-> << >>]
    /\ tok = [p \in Procs |-> None]
    /\ tcall = [p \in Procs |-> NoCall]
    /\ last = NoLast

\* time passes
Tick ==
    /\ now < MaxTime
    /\ last = NoLast
    /\ now' = now + 1
    /\ UNCHANGED <<cache, posts, minted, written, geoKey, creds, pc, entry, loc, calls,
                   answers, tok, tcall, last>>

\* the request of entry point e, location l, outbound calls c and latest
\* answer r ends on branch b with value v: its frame is gone
Finish(p, e, l, c, r, b, v) ==
    /\ last' = [entry |-> e, loc |-> l, calls |-> c, path |-> b, resp |-> r, outcome |-> v]
    /\ pc' = [pc EXCEPT ![p] = "idle"]
    /\ entry' = [entry EXCEPT ![p] = "route"]
    /\ loc' = [loc EXCEPT ![p] = << >>]
    /\ calls' = [calls EXCEPT ![p] = << >>]
    /\ answers' = [answers EXCEPT ![p] = << >>]
    /\ tok' = [tok EXCEPT ![p] = None]
    /\ tcall' = [tcall EXCEPT ![p] = NoCall]

\* fetch_geolocation is entered: the key check, then the request goes out
EnterGeolocation(p, e, l) ==
    IF GeoEarly(e).raised
    THEN Finish(p, e, l, << >>, NoResp, "geo:nokey", Caught(e, GeoEarly(e)))
    ELSE /\ pc' = [pc EXCEPT ![p] = "geo"]
         /\ entry' = [entry EXCEPT ![p] = e]
         /\ loc' = [loc EXCEPT ![p] = l]
         /\ calls' = [calls EXCEPT ![p] = <<"geocode">>]
         /\ UNCHANGED <<answers, tok, tcall, last>>

\* GET /api/airports?location=l: get_nearest_airports -> get_airport
\* (routers/airports.py 103-126, 46-65)
StartRoute(p) ==
    /\ pc[p] = "idle"
    /\ last = NoLast
    /\ \E l \in Locations :
        IF RouterLocationCheck(l).raised
        THEN Finish(p, "route", l, << >>, NoResp, "invalid",
                    GetNearestAirports(RouterLocationCheck(l)))
        ELSE EnterGeolocation(p, "route", l)
    /\ UNCHANGED <<now, cache, posts, minted, written, geoKey, creds>>

\* the get_airport tool is invoked with location l (tools/airports.py 8-27):
\* the location goes to fetch_geolocation as it is
StartTool(p) ==
    /\ pc[p] = "idle"
    /\ last = NoLast
    /\ \E l \in Locations : EnterGeolocation(p, "tool", l)
    /\ UNCHANGED <<now, cache, posts, minted, written, geoKey, creds>>

\* the geocoding answer arrives (utils.py 28-42; routers/airports.py 65-71,
\* tools/airports.py 27-32)
GeoResponse(p) ==
    /\ pc[p] = "geo"
    /\ last = NoLast
    /\ \E r \in GeoResponses :
        LET e == entry[p]
            v == GeoResult(e, r)
        IN  IF v.raised
            THEN Finish(p, e, loc[p], calls[p], r, "geo:" \o r.kind, Caught(e, v))
            ELSE IF v.type = "None"
            THEN Finish(p, e, loc[p], calls[p], r, "geo:empty", NoCoords(e))
            ELSE /\ pc' = [pc EXCEPT ![p] = "token"]
                 /\ answers' = [answers EXCEPT ![p] = Append(@, r.kind)]
                 /\ UNCHANGED <<entry, loc, calls, tok, tcall, last>>
    /\ UNCHANGED <<now, cache, posts, minted, written, geoKey, creds>>

\* the airport search goes out with the token (routers/airports.py 74-86,
\* tools/airports.py 35-44)
SendAirport(p) ==
    /\ pc' = [pc EXCEPT ![p] = "air"]
    /\ calls' = [calls EXCEPT ![p] = Append(@, "airport")]

\* access_token = await get_access_token(): the cache check, the credentials
\* check, the request to the token endpoint (utils.py 48-66,
\* routers/airports.py 20-38)
GetAccessToken(p) ==
    /\ pc[p] = "token"
    /\ last = NoLast
    /\ LET e == entry[p]
           m == ModuleOf(e)
       IN  IF TokenValid(m)
           THEN /\ tok' = [tok EXCEPT ![p] = cache[m].token]
                /\ tcall' = [tcall EXCEPT ![p] = [miss |-> FALSE, hit |-> TRUE, posts |-> 0]]
                /\ SendAirport(p)
                /\ UNCHANGED <<posts, entry, loc, answers, last>>
           ELSE IF ~creds
           THEN /\ Finish(p, e, loc[p], calls[p], NoResp, "tok:nocreds",
                          Caught(e, Raise("ValueError", 0, "Amadeus API credentials not found")))
                /\ UNCHANGED posts
           ELSE /\ posts < MaxPosts
                /\ posts' = posts + 1
                /\ pc' = [pc EXCEPT ![p] = "tokwait"]
                /\ calls' = [calls EXCEPT ![p] = Append(@, "token")]
                /\ tcall' = [tcall EXCEPT ![p] = [miss |-> TRUE, hit |-> FALSE, posts |-> 1]]
                /\ UNCHANGED <<tok, entry, loc, answers, last>>
    /\ UNCHANGED <<now, cache, minted, written, geoKey, creds>>

\* the token endpoint's answer arrives (utils.py 66-72, routers/airports.py
\* 38-44), and the caller goes on (routers/airports.py 74-86)
TokenResponse(p) ==
    /\ pc[p] = "tokwait"
    /\ last = NoLast
    /\ \E r \in TokenResponses(Cardinality(minted) + 1) :
        LET e == entry[p]
            m == ModuleOf(e)
            v == TokenExchangeResult(r)
        IN  IF v.raised
            THEN /\ Finish(p, e, loc[p], calls[p], r, "tok:" \o r.kind, Caught(e, v))
                 /\ UNCHANGED <<cache, minted, written>>
            ELSE /\ cache' = [cache EXCEPT ![m] = StoreToken(@, r.token, NewExpiry(now, r.expires_in))]
                 /\ minted' = minted \cup {r.token}
                 /\ written' = [written EXCEPT ![m] =
                                [token |-> r.token, expires_in |-> r.expires_in, at |-> now]]
                 /\ IF e = "route" /\ r.token = None
                    THEN Finish(p, e, loc[p], calls[p], r, "tok:falsy",
                                Caught(e, HTTPException(500, "Failed to obtain access token",
                                                        NoOutcome)))
                    ELSE /\ tok' = [tok EXCEPT ![p] = r.token]
                         /\ answers' = [answers EXCEPT ![p] = Append(@, r.kind)]
                         /\ SendAirport(p)
                         /\ UNCHANGED <<entry, loc, tcall, last>>
    /\ UNCHANGED <<now, posts, geoKey, creds>>

\* the airport search's answer arrives (routers/airports.py 86-101, 117-126;
\* tools/airports.py 44-72)
AirportResponse(p) ==
    /\ pc[p] = "air"
    /\ last = NoLast
    /\ \E r \in AirportResponses :
        Finish(p, entry[p], loc[p], calls[p], r, "air:" \o r.kind, AirportResult(entry[p], r))
    /\ UNCHANGED <<now, cache, posts, minted, written, geoKey, creds>>

\* the caller takes what the request that has just ended hands it (the HTTP
\* response is sent, the tool result goes to the agent); the event loop runs
\* one callback at a time, so nothing else happens in between
Deliver ==
    /\ last # NoLast
    /\ last' = NoLast
    /\ UNCHANGED <<now, cache, posts, minted, written, geoKey, creds, pc, entry, loc, calls,
                   answers, tok, tcall>>

\* the airport lookups and the token caches
Next ==
    \/ Tick /\ UNCHANGED <<fvars, uvars>>
    \/ Deliver /\ UNCHANGED <<fvars, uvars>>
    \/ \E p \in Procs : StartRoute(p) /\ UNCHANGED <<fvars, uvars>>
    \/ \E p \in Procs : StartTool(p) /\ UNCHANGED <<fvars, uvars>>
    \/ \E p \in Procs : GeoResponse(p) /\ UNCHANGED <<fvars, uvars>>
    \/ \E p \in Procs : GetAccessToken(p) /\ UNCHANGED <<fvars, uvars>>
    \/ \E p \in Procs : TokenResponse(p) /\ UNCHANGED <<fvars, uvars>>
    \/ \E p \in Procs : AirportResponse(p) /\ UNCHANGED <<fvars, uvars>>

Spec == Init /\ [][Next]_vars

(***************************************************************************)
(* The flight-search operations, one at a time: each is a call that ends   *)
(* before the user acts again.                                             *)
(***************************************************************************)
InitFlights ==
    /\ serpKey \in BOOLEAN
    /\ FlightsIdle
    /\ UiIdle
    /\ now = 0
    /\ cache = [m \in Modules |-> [token |-> None, expiry |-> 0]]
    /\ posts = 0
    /\ minted = {}
    /\ written = [m \in Modules |-> NoExchange]
    /\ geoKey = TRUE
    /\ creds = TRUE
    /\ pc = [p \in Procs |-> "idle"]
    /\ entry = [p \in Procs |-> "route"]
    /\ loc = [p \in Procs |-> << >>]
    /\ calls = [p \in Procs |-> << >>]
    /\ answers = [p \in Procs |-> << >>]
    /\ tok = [p \in Procs |-> None]
    /\ tcall = [p \in Procs |-> NoCall]
    /\ last = NoLast

\* the operation ends with value v
FlightDone(o, q, v) ==
    /\ fpc' = "done"
    /\ fop' = o
    /\ fparams' = q
    /\ fresult' = v

\* the query y goes out to the provider
FlightSend(o, q, y) ==
    /\ fpc' = "wait"
    /\ fop' = o
    /\ fparams' = q
    /\ fquery' = y
    /\ UNCHANGED <<fanswer, fresult>>

\* get_flights of tools/flights.py (36-87) and of utils.py (162-213): the key
\* check, the query, the search
StartGetFlights ==
    /\ fpc = "idle"
    /\ \E o \in {"tools.get_flights", "utils.get_flights"}, d \in ReturnDates :
        LET q == [NoParams EXCEPT !.return_date = d]
        IN  IF ~serpKey
            THEN /\ FlightDone(o, q, ErrorDict(500, "SERPAPI_API_KEY not found in environment variables"))
                 /\ UNCHANGED <<fquery, fanswer>>
            ELSE FlightSend(o, q, IF o = "tools.get_flights" THEN ToolsFlightsQuery(q)
                                  ELSE UtilsFlightsQuery(q))
    /\ UNCHANGED <<avars, uvars, serpKey>>

\* fetch_flights of utils.py (232-251)
StartFetchFlights ==
    /\ fpc = "idle"
    /\ \E d \in ReturnDates, t \in DepartureTokens :
        LET q == [NoParams EXCEPT !.return_date = d, !.departure_token = t]
        IN  FlightSend("utils.fetch_flights", q, FetchFlightsQuery(q))
    /\ UNCHANGED <<avars, uvars, serpKey>>

\* on_get_return_flights (ui_manager.py 165-185): the selected flight's
\* departure_token t joins the initial payload
StartReturnFlights ==
    /\ fpc = "idle"
    /\ \E d \in ReturnDates, t \in DepartureTokens :
        LET q == [NoParams EXCEPT !.return_date = d, !.departure_token = t]
        IN  IF t = ""
            THEN /\ FlightDone("on_get_return_flights", q, NoDepartureToken)
                 /\ UNCHANGED <<fquery, fanswer>>
            ELSE FlightSend("on_get_return_flights", q, FetchFlightsQuery(q))
    /\ UNCHANGED <<avars, uvars, serpKey>>

\* POST /api/flights: get_flights -> fetch_flights (routers/flights.py 78-79,
\* 25-37)
StartRouterGetFlights ==
    /\ fpc = "idle"
    /\ \E d \in ReturnDates, t \in DepartureTokens :
        LET q == [NoParams EXCEPT !.return_date = d, !.departure_token = t]
        IN  FlightSend("routers.get_flights", q, RouterFlightsQuery(q))
    /\ UNCHANGED <<avars, uvars, serpKey>>

\* a card is selected: get_flight_details (ui_manager.py 110-120)
GetFlightDetails ==
    /\ fpc = "idle"
    /\ \E d \in ReturnDates, t \in DepartureTokens, b \in BookingTokens :
        LET q == [NoParams EXCEPT !.return_date = d, !.departure_token = t,
                                  !.booking_token = b]
        IN  FlightDone("get_flight_details", q, get_flight_details(q))
    /\ UNCHANGED <<avars, uvars, serpKey, fquery, fanswer>>

\* get_booking_options of utils.py and of tools/flights.py, called with a
\* dict or with a BookingInput object
GetBookingOptions ==
    /\ fpc = "idle"
    /\ \E o \in {"utils.get_booking_options", "tools.get_booking_options"},
          k \in ParamKinds, d \in ReturnDates :
        LET q == [NoParams EXCEPT !.kind = k, !.return_date = d, !.booking_token = "btok"]
        IN  FlightDone(o, q, IF o = "utils.get_booking_options"
                             THEN UtilsGetBookingOptions(q) ELSE ToolsGetBookingOptions(q))
    /\ UNCHANGED <<avars, uvars, serpKey, fquery, fanswer>>

\* the booking button: on_booking_options (ui_manager.py 123-162)
OnBookingOptions ==
    /\ fpc = "idle"
    /\ \E d \in ReturnDates, b \in BookingTokens :
        LET q == [NoParams EXCEPT !.return_date = d, !.booking_token = b]
        IN  FlightDone("on_booking_options", q, on_booking_options(q))
    /\ UNCHANGED <<avars, uvars, serpKey, fquery, fanswer>>

\* the view a transition returned goes to update_view (ui_manager.py 193-203)
UpdateView ==
    /\ fpc = "done"
    /\ fresult.view # ""
    /\ panels' = update_view(fresult.view)
    /\ UNCHANGED <<avars, fvars, render>>

\* the provider's answer arrives
FlightAnswer ==
    /\ fpc = "wait"
    /\ \E a \in IF fop \in {"tools.get_flights", "utils.get_flights"}
                THEN SdkAnswers ELSE HttpAnswers :
        /\ fanswer' = a
        /\ FlightDone(fop, fparams,
                      CASE fop \in {"tools.get_flights", "utils.get_flights"} -> GetFlightsResult(a)
                        [] fop = "utils.fetch_flights" -> FetchFlightsResult(a)
                        [] fop = "routers.get_flights" -> RouterGetFlightsResult(a)
                        [] OTHER -> ReturnFlightsResult(a))
    /\ UNCHANGED <<avars, uvars, serpKey, fquery>>

\* the caller has taken the result
FlightReset ==
    /\ fpc = "done"
    /\ fpc' = "idle"
    /\ fop' = ""
    /\ fparams' = NoParams
    /\ fquery' = NoQuery
    /\ fanswer' = NoAnswer
    /\ fresult' = NoResult
    /\ UNCHANGED <<avars, uvars, serpKey>>

NextFlights ==
    \/ StartGetFlights
    \/ StartFetchFlights
    \/ StartReturnFlights
    \/ StartRouterGetFlights
    \/ GetFlightDetails
    \/ GetBookingOptions
    \/ OnBookingOptions
    \/ UpdateView
    \/ FlightAnswer
    \/ FlightReset

SpecFlights == InitFlights /\ [][NextFlights]_vars

(***************************************************************************)
(* Rendering: the callbacks that fill the card slots and the booking       *)
(* slots, called with a result set of any size.                            *)
(***************************************************************************)
\* the result sets a callback is handed: None, or a dict
ResultSets == {NoData} \cup {Data(b, o, 0) : b \in 0..MaxBest, o \in 0..MaxOther}
BookingSets == {NoData} \cup {Data(0, 0, k) : k \in 0..MaxOptions}

InitRender ==
    /\ InitFlights
    /\ serpKey = TRUE

UpdateCards ==
    /\ \E selected \in Selections, d \in ResultSets : render' = update_cards(selected, d)
    /\ UNCHANGED <<avars, fvars, panels>>

UpdateFlightInterface ==
    /\ \E d \in ResultSets : render' = update_flight_interface(d)
    /\ UNCHANGED <<avars, fvars, panels>>

UpdateBookingUi ==
    /\ \E d \in BookingSets : render' = update_booking_ui(d)
    /\ UNCHANGED <<avars, fvars, panels>>

NextRender ==
    \/ UpdateCards
    \/ UpdateFlightInterface
    \/ UpdateBookingUi

SpecRender == InitRender /\ [][NextRender]_vars

(***************************************************************************)
(* Properties of the token cache.                                          *)
(***************************************************************************)
\* request p makes its get_access_token call in this step
CallsGetAccessToken(p) == pc[p] = "token" /\ pc'[p] # "token"
\* request p's get_access_token call takes the token endpoint's answer in this step
TakesTokenAnswer(p) == pc[p] = "tokwait" /\ pc'[p] # "tokwait"

\* C1: a get_access_token call made while the module's cache holds a token and
\* the time is before the cached expiry makes no call to the token endpoint,
\* leaves the cache alone and returns the cached token.
TokenReuse ==
    [][\A p \in Procs :
        LET m == ModuleOf(entry[p])
        IN  (CallsGetAccessToken(p) /\ cache[m].token # None /\ now < cache[m].expiry)
            => /\ posts' = posts
               /\ cache' = cache
               /\ tok'[p] = cache[m].token
               /\ calls'[p] = Append(calls[p], "airport")]_vars

\* a request that was handed the token another call had cached
TokenReuseWitness ==
    \E p \in Procs :
        /\ pc[p] = "air"
        /\ tcall[p].hit
        /\ tcall[p].posts = 0
        /\ tok[p] # None
        /\ tok[p] = cache[ModuleOf(entry[p])].token
        /\ posts = 1

\* C2, as stated: every get_access_token call made with no cached token or at
\* or after the cached expiry makes exactly one exchange, stores the new token
\* with its expiry and returns it.
TokenRefreshAlways ==
    [][\A p \in Procs :
        LET m == ModuleOf(entry[p])
        IN  /\ (CallsGetAccessToken(p) /\ ~(cache[m].token # None /\ now < cache[m].expiry))
                => (posts' = posts + 1 /\ pc'[p] = "tokwait")
            /\ TakesTokenAnswer(p)
                => /\ pc'[p] = "air"
                   /\ tok'[p] # None
                   /\ cache'[m].token = tok'[p]]_vars

\* C2, amended: such a call makes no exchange and raises when the client
\* credentials are missing, and one exchange otherwise; when the token endpoint
\* answers 2xx the token is stored with the expiry (time of the answer +
\* expires_in - 10) and returned; when the exchange fails the call raises and
\* the cache stays as it was.
TokenRefresh ==
    [][\A p \in Procs :
        LET m == ModuleOf(entry[p])
        IN  /\ (CallsGetAccessToken(p) /\ ~(cache[m].token # None /\ now < cache[m].expiry))
                => /\ cache' = cache
                   /\ IF creds
                      THEN posts' = posts + 1 /\ pc'[p] = "tokwait" /\ tcall'[p].posts = 1
                      ELSE posts' = posts /\ last'.outcome.cause = "Amadeus API credentials not found"
            /\ TakesTokenAnswer(p)
                => /\ posts' = posts
                   /\ IF pc'[p] = "air"
                      THEN /\ written'[m].token \notin minted
                           /\ written'[m].expires_in \in ExpiresIn
                           /\ written'[m].at = now
                           /\ tcall'[p].posts = 1
                           /\ tok'[p] = written'[m].token
                           /\ cache'[m] = [token |-> written'[m].token,
                                           expiry |-> now + written'[m].expires_in - 10]
                      ELSE /\ last'.resp.kind \in {"http", "neterr", "badjson"}
                           /\ last'.path = "tok:" \o last'.resp.kind
                           /\ cache' = cache]_vars

\* a request whose call replaced the module's earlier token by a new one
TokenRefreshWitness ==
    \E p \in Procs :
        /\ pc[p] = "air"
        /\ tcall[p].miss
        /\ tcall[p].posts = 1
        /\ tok[p] = 2
        /\ minted = {1, 2}
        /\ cache[ModuleOf(entry[p])].token = 2
        /\ \A m \in Modules \ {ModuleOf(entry[p])} : cache[m].token = None

\* C3: whatever the interleaving, each module's cached token and expiry are
\* the pair stored by its latest completed exchange, the cached token is one
\* the vendor issued, and so is every token handed to a caller.
CacheNeverCorrupted ==
    /\ \A m \in Modules :
        /\ cache[m].token = written[m].token
        /\ cache[m].expiry = IF written[m] = NoExchange THEN 0
                             ELSE written[m].at + written[m].expires_in - 10
        /\ cache[m].token # None => cache[m].token \in minted
    /\ \A p \in Procs : tok[p] # None => tok[p] \in minted

\* redundant work: a request still waits for its own exchange while the cache
\* already holds the valid token another request's exchange stored meanwhile
RedundantExchangeWitness ==
    \E p \in Procs, q \in Procs :
        /\ p # q
        /\ entry[p] = entry[q]
        /\ pc[p] = "tokwait"
        /\ pc[q] = "air"
        /\ tcall[q].miss
        /\ tok[q] = cache[ModuleOf(entry[q])].token
        /\ TokenValid(ModuleOf(entry[p]))

\* C4, as stated: once a token has been obtained by any caller and is still
\* valid, every airport-lookup caller's get_access_token call makes no
\* exchange and returns that token.
SharedTokenAcrossCallers ==
    [][\A p \in Procs :
        (CallsGetAccessToken(p)
            /\ \E m \in Modules : cache[m].token # None /\ now < cache[m].expiry)
        => /\ posts' = posts
           /\ \E m \in Modules :
                /\ cache[m].token # None
                /\ now < cache[m].expiry
                /\ tok'[p] = cache[m].token]_vars

(***************************************************************************)
(* Properties of the airport lookup.                                       *)
(***************************************************************************)
\* empty or whitespace only
Blank(l) == \A i \in 1..Len(l) : l[i] = " "

\* C5, as stated: a blank location is rejected as invalid input at every entry
\* point, with no outbound call made for the request.
BlankLocationRejected ==
    /\ \A p \in Procs : pc[p] # "idle" => ~Blank(loc[p])
    /\ (last # NoLast /\ Blank(last.loc))
        => (last.calls = << >> /\ last.path = "invalid")

\* C6: when the geocoding provider answers with no results, the lookup returns
\* (does not raise) a value with status 404, has made the geocoding call only,
\* and the value is none of those a failed geocoding call gives.
GeoNotFound ==
    (last.path = "geo:empty")
    => /\ ~last.outcome.raised
       /\ last.outcome.type = "dict"
       /\ last.outcome.status = 404
       /\ last.calls = <<"geocode">>
       /\ \A r \in GeoResponses :
            r.kind \in {"http", "neterr", "badjson"}
            => last.outcome # Caught(last.entry, GeoResult(last.entry, r))

GeoNotFoundWitness ==
    /\ last.path = "geo:empty"
    /\ last.entry = "tool"
    /\ last.resp.kind = "empty"
    /\ last.outcome.status = 404

\* C7, as stated: a 2xx answer of the airport search with an empty list ends
\* the lookup with status 404 at both entry points.
NoAirportsIs404 ==
    (last.path = "air:empty") => last.outcome.status = 404

\* C8, as stated: when a vendor call of the chain answers with a non-2xx
\* status, the error handed to the caller carries that status.
UpstreamStatusPreserved ==
    (last # NoLast /\ last.resp.kind = "http") => last.outcome.status = last.resp.status

\* the kind of error a route request ended with
KindOf(b) ==
    CASE b = "invalid" -> "invalid"
      [] b \in {"geo:empty", "air:empty"} -> "notfound"
      [] b \in {"geo:http", "geo:neterr", "geo:badjson", "tok:http", "tok:neterr",
                "tok:badjson", "air:http", "air:neterr", "air:badjson"} -> "upstream"
      [] OTHER -> "other"

\* status code and message of a value
Sig(v) == <<v.status, v.msg, v.cause>>

\* what GET /api/airports can answer for each kind of error
RouteAnswers(k) ==
    CASE k = "invalid" ->
            {GetNearestAirports(RouterLocationCheck(l)) : l \in {x \in Locations : Blank(x)}}
      [] k = "notfound" ->
            {NoCoords("route"), AirportResult("route", Resp("empty", 200, TRUE))}
      [] OTHER ->
            {Caught("route", GeoResult("route", r)) :
                r \in {x \in GeoResponses : x.kind \in {"http", "neterr", "badjson"}}}
            \cup {Caught("route", TokenExchangeResult(r)) :
                r \in {x \in TokenResponses(1) : x.kind # "ok"}}
            \cup {AirportResult("route", r) :
                r \in {x \in AirportResponses : x.kind \in {"http", "neterr", "badjson"}}}

\* C9: on GET /api/airports, the status code and message an error of one kind
\* (invalid location, not found, upstream failure) ends with is never the status
\* code and message of an answer of another kind.
RouteErrorsDistinguishable ==
    (last.entry = "route" /\ KindOf(last.path) \in {"invalid", "notfound", "upstream"})
    => /\ last.outcome \in RouteAnswers(KindOf(last.path))
       /\ \A k \in {"invalid", "notfound", "upstream"} \ {KindOf(last.path)} :
            \A v \in RouteAnswers(k) : Sig(last.outcome) # Sig(v)

\* the no-airports answer: the status code of the invalid-location answer, told
\* apart by its message
RouteErrorsWitness ==
    /\ last.entry = "route"
    /\ last.path = "air:empty"
    /\ last.outcome.status = 500
    /\ last.outcome.msg = "Error processing request"

(***************************************************************************)
(* Properties of the call chain of one airport lookup.                     *)
(***************************************************************************)
\* the outbound calls of one request, in the order the code makes them; the
\* token call is left out when the cache answers
ChainOrders ==
    {<< >>, <<"geocode">>, <<"geocode", "token">>, <<"geocode", "airport">>,
     <<"geocode", "token", "airport">>}

\* C15: within one airport lookup the outbound calls go geocode, token, airport
\* search, each endpoint at most once; a request that is still running has had
\* only successful answers (a failed or not-found answer ends it in the step
\* that takes it), and a request that ended on an answer made no call after
\* the one that answer belongs to.
CallChainFailFast ==
    /\ \A p \in Procs :
        /\ calls[p] \in ChainOrders
        /\ Len(answers[p]) <= Len(calls[p])
        /\ \A i \in DOMAIN answers[p] : answers[p][i] \in {"results", "ok"}
        /\ pc[p] \in {"geo", "tokwait", "air"} => Len(answers[p]) = Len(calls[p]) - 1
    /\ last.calls \in ChainOrders
    /\ last.path \in {"geo:neterr", "geo:badjson", "geo:empty"} => last.calls = <<"geocode">>
    /\ last.path = "tok:nocreds" => last.calls = <<"geocode">>
    /\ last.path \in {"tok:neterr", "tok:http", "tok:badjson"}
        => last.calls = <<"geocode", "token">>
    /\ last.resp.kind # "none" => last.path \in {"geo:" \o last.resp.kind,
                                                 "tok:" \o last.resp.kind,
                                                 "air:" \o last.resp.kind}

\* a request ended by the token endpoint's failure: the airport search was
\* never called
CallChainWitness ==
    /\ last.path = "tok:neterr"
    /\ last.calls = <<"geocode", "token">>
    /\ last.resp.kind = "neterr"
    /\ \E p \in Procs : pc[p] = "air" /\ calls[p] = <<"geocode", "token", "airport">>

\* C18: a get_access_token call that fails leaves the cached token and expiry
\* as they were: with the credentials missing it ends before any call to the
\* token endpoint, and an exchange whose answer is not a 2xx JSON body ends
\* the call with the cache untouched.
TokenFailureFrame ==
    [][\A p \in Procs :
        LET m == ModuleOf(entry[p])
        IN  /\ (CallsGetAccessToken(p) /\ ~creds
                    /\ ~(cache[m].token # None /\ now < cache[m].expiry))
                => /\ posts' = posts
                   /\ cache' = cache
                   /\ written' = written
                   /\ last'.path = "tok:nocreds"
                   /\ last'.calls = calls[p]
                   /\ "token" \notin {calls[p][i] : i \in DOMAIN calls[p]}
            /\ (TakesTokenAnswer(p)
                    /\ ~(pc'[p] = "air" /\ answers'[p] = Append(answers[p], "ok")))
                => /\ cache' = cache
                   /\ written' = written
                   /\ last'.resp.kind \in {"http", "neterr", "badjson"}
                   /\ last'.path = "tok:" \o last'.resp.kind]_vars

\* an exchange failed while the module's cache held an expired token: the
\* token and its expiry are still there
TokenFailureFrameWitness ==
    /\ last.path = "tok:http"
    /\ posts = 2
    /\ cache[ModuleOf(last.entry)].token = 1
    /\ cache[ModuleOf(last.entry)].expiry <= now
    /\ cache[ModuleOf(last.entry)].expiry = written[ModuleOf(last.entry)].at + 8 - 10

(***************************************************************************)
(* Properties of the rendering.                                            *)
(***************************************************************************)
\* the number of flights of a result set (0 when it is missing)
FlightCount(d) == IF d.missing THEN 0 ELSE Len(d.best) + Len(d.other)
OptionCount(d) == IF d.missing THEN 0 ELSE Len(d.options)
\* of the slots s, those that hold something
NonEmpty(s) == {i \in DOMAIN s : s[i].text # ""}
Shown(s) == {i \in DOMAIN s : s[i]}
Min(a, b) == IF a < b THEN a ELSE b

\* C12: update_cards and update_flight_interface return 20 card slots of
\* which the first min(n, 20) hold a card (and are marked visible) and the
\* rest are empty (and hidden), n being the flights of best_flights and
\* other_flights together; update_booking_ui returns 10 slots filled the same
\* way for n booking options; a missing result set counts as n = 0.
RenderFillsSlots ==
    /\ render.op \in {"update_cards", "update_flight_interface"}
        => /\ DOMAIN render.html = 1..20
           /\ NonEmpty(render.html) = 1..Min(FlightCount(render.data), 20)
    /\ render.op = "update_flight_interface"
        => /\ DOMAIN render.visible = 1..20
           /\ Shown(render.visible) = 1..Min(FlightCount(render.data), 20)
    /\ render.op = "update_booking_ui"
        => /\ DOMAIN render.html = 1..10
           /\ DOMAIN render.visible = 1..10
           /\ DOMAIN render.buttons = 1..10
           /\ NonEmpty(render.html) = 1..Min(OptionCount(render.data), 10)
           /\ Shown(render.visible) = 1..Min(OptionCount(render.data), 10)
           /\ Shown(render.buttons) = 1..Min(OptionCount(render.data), 10)

\* more flights than slots: all 20 slots hold a card, the flights beyond the
\* 20th are left out
RenderFillsSlotsWitness ==
    /\ render.op = "update_flight_interface"
    /\ FlightCount(render.data) = 22
    /\ Len(render.data.best) = 11
    /\ NonEmpty(render.html) = 1..20
    /\ render.html[12].flight = <<"other_flights", 1>>
    /\ render.html[20].flight = <<"other_flights", 9>>

(***************************************************************************)
(* Properties of the flight search.                                        *)
(***************************************************************************)
\* C10, as stated: every flight-search operation turns a provider answer that
\* holds neither best_flights nor error into the "no flights found" value with
\* status 404.
NoFlightsNormalized ==
    (fpc = "done" /\ fanswer.kind = "dict" /\ ~fanswer.best /\ ~fanswer.error)
    => /\ fresult.status = 404
       /\ fresult.msg = "No flights found for the given parameters"

\* C11, as stated: the type marker of every flight-search query sent to the
\* provider is 1 (round trip) when the request has a non-empty return date and
\* 2 (one way) when the return date is empty or absent, on every flight-search
\* path, the return-leg search included.
TypeMarkerDerived ==
    (fop \in FlightOps /\ fquery.sent)
    => fquery.type = IF DateGiven(fparams.return_date) THEN 1 ELSE 2

\* C17, as stated: on POST /api/flights a failed provider call (non-2xx, no
\* answer, a body that is not JSON) reaches the HTTP caller as the error of
\* that call: the handler does not return normally, and its error handling
\* does not fail with an error of its own.
ProviderFailureSurfaces ==
    (fpc = "done" /\ fop = "routers.get_flights"
        /\ fanswer.kind \in {"http", "neterr", "badjson"})
    => /\ fresult.raised
       /\ fresult.type \in {"HTTPException", "HTTPStatusError", "RequestError"}

(***************************************************************************)
(* Properties of the booking-option lookup.                                *)
(***************************************************************************)
\* C16, as stated: a booking-option lookup made with a booking_token (and the
\* provider key set) sends the provider a query that carries the
\* booking_token, and ends with the provider's data or with the 404 value,
\* not with an exception.
BookingOptionsForwarded ==
    (fpc = "done" /\ fop \in BookingOps /\ serpKey /\ fparams.booking_token # "")
    => /\ fquery.sent
       /\ fquery.booking_token = fparams.booking_token
       /\ fanswer.kind = "dict"
       /\ ~fresult.raised

(***************************************************************************)
(* Properties of the views.                                                *)
(***************************************************************************)
DetailViews == {VIEW_OUTBOUND_DETAILS, VIEW_RETURN_DETAILS, VIEW_BOOKING}

\* C13, as stated: get_flight_details returns one of the views outbound
\* details, return details, booking for every params value: outbound details
\* when the request lacks a return date, else return details when it carries
\* a departure_token, else booking when it carries a booking_token.
FlightDetailsView ==
    (fpc = "done" /\ fop = "get_flight_details")
    => /\ fresult.type = "tuple"
       /\ fresult.view \in DetailViews
       /\ ~DateGiven(fparams.return_date) => fresult.view = VIEW_OUTBOUND_DETAILS
       /\ (DateGiven(fparams.return_date) /\ fparams.departure_token # "")
            => fresult.view = VIEW_RETURN_DETAILS
       /\ (DateGiven(fparams.return_date) /\ fparams.departure_token = ""
                /\ fparams.booking_token # "")
            => fresult.view = VIEW_BOOKING

\* the panel of a view, in the order update_view returns the five flags
PanelOf(view) ==
    CASE view = "outbound cards" -> 1
      [] view = "return cards" -> 2
      [] view = "outbound details" -> 3
      [] view = "return details" -> 4
      [] view = "booking" -> 5
      [] OTHER -> 0

\* C14: every view a transition operation (get_flight_details,
\* on_get_return_flights, on_booking_options) returns is one of the five
\* views, and update_view answers it with five flags of which exactly one is
\* visible, the one of that view's panel.
SingleActiveView ==
    /\ (fpc = "done" /\ fresult.view # "") => PanelOf(fresult.view) \in 1..5
    /\ panels # NoPanels
        => /\ panels.returned = "tuple"
           /\ DOMAIN panels.flags = 1..5
           /\ {i \in 1..5 : panels.flags[i]} = {PanelOf(panels.view)}

\* the return cards are on show after on_get_return_flights, and nothing else
SingleActiveViewWitness ==
    /\ fpc = "done"
    /\ fop = "on_get_return_flights"
    /\ fanswer.kind = "dict"
    /\ panels.view = "return cards"
    /\ panels.flags = <<FALSE, TRUE, FALSE, FALSE, FALSE>>

====
